---- MODULE Spec2Model ----
(***************************************************************************)
(* A model of estrai_cambio.py: one unattended run checks the weekday and  *)
(* the time window, optionally skips when today's row is already in the    *)
(* CSV ledger, GETs the rate page with urllib3's Retry policy, extracts    *)
(* the currency's Middle/Sales cells and upserts today's row in the ledger *)
(* through a temporary file and a rename.                                  *)
(*                                                                         *)
(* Files are modelled as their rows plus the line terminator they were     *)
(* written with: csv.reader drops the terminator, csv.writer always writes *)
(* "\r\n", so reading and writing back is not the identity on files.       *)
(* CSV_PATH is taken not to end in ".tmp", so the temporary file and the   *)
(* ledger are two paths.                                                   *)
(***************************************************************************)
EXTENDS Integers, Sequences, FiniteSets, TLC

VARIABLES
    cfg,        \* the module-level configuration (lines 46-53)
    now,        \* the wall clock: [day, tod]
    csv,        \* the file at CSV_PATH
    tmp,        \* the file at CSV_PATH.with_suffix(".tmp")
    log,        \* the records appended to LOG_PATH, oldest first
    pc,         \* the position of the running process
    today,      \* main's local `today` (line 176)
    total,      \* the Retry object's remaining `total`
    attempts,   \* GET requests sent by this run
    body,       \* resp.text of the response session.get returned
    mid,        \* extract_eur_rate's result, first component
    sal,        \* extract_eur_rate's result, second component
    upToday,    \* save_csv's local `today` (line 140)
    existing,   \* save_csv's local `existing` (lines 145-156)
    status,     \* the process's exit status, "none" while it runs
    failed,     \* the stage whose exception is propagating, "none" otherwise
    trace,      \* history: the stages this run has entered, in order
    csv0,       \* history: the ledger file when this run started
    log0,       \* history: the length of the log when this run started
    calls,      \* history: save_csv calls made so far
    clean,      \* history: the first run started with at most one row per date
    lastKey,    \* history: <<date, middle, sales>> of the last renamed upsert
    replaced,   \* history: whether the last save_csv call found its date
    lastResp,   \* history: what the last GET attempt met
    exc,        \* history: the exception extract_eur_rate raised, if it did
    procs       \* the processes that call save_csv at the same time, if any

vars == <<cfg, now, csv, tmp, log, pc, today, total, attempts, body, mid, sal,
          upToday, existing, status, failed, trace, csv0, log0, calls, clean,
          lastKey, replaced, lastResp, exc, procs>>

(***************************************************************************)
(* Bounds of the model.                                                    *)
(***************************************************************************)
MaxDay == 1
MaxTod == 2
MaxRows == 2
MaxCalls == 2

(***************************************************************************)
(* The clock.  Day 0 is Friday 31/05/2024, day 1 Saturday 01/06/2024, ...  *)
(***************************************************************************)
TwoDigits(n) == IF n < 10 THEN "0" \o ToString(n) ELSE ToString(n)

\* datetime.now().strftime("%d/%m/%Y")
DateStr(day) == IF day = 0 THEN "31/05/2024" ELSE TwoDigits(day) \o "/06/2024"

\* datetime.now().weekday(): Monday is 0
Weekday(day) == (4 + day) % 7

AllDates == {DateStr(d) : d \in 0..MaxDay}

\* the dates of the rows earlier runs left in the ledger
LedgerDates == {DateStr(0), DateStr(1)}

(***************************************************************************)
(* The ledger file.                                                        *)
(***************************************************************************)
Header == <<"Data", "Middle", "Sales">>

Absent == [exists |-> FALSE, crlf |-> FALSE, rows |-> <<>>]

\* list(csv.reader(f, delimiter=";")): the rows, without their terminators
ReadRows(file) == file.rows

\* csv.writer(f, delimiter=";").writerows(rows) on a file opened with newline=""
Written(rows) == [exists |-> TRUE, crlf |-> TRUE, rows |-> rows]

\* lines 149-150
WithHeaderAlways(rows) == <<Header>> \o rows

WithHeaderOverwrite(rows) ==
    IF rows = <<>> THEN <<Header>> ELSE [rows EXCEPT ![1] = Header]

WithHeader(rows) ==
    IF rows = <<>> \/ rows[1] # Header THEN <<Header>> \o rows ELSE rows

\* r[0] raises IndexError on the empty row csv.reader gives for a blank line
HasBlank(rows) == \E i \in DOMAIN rows : rows[i] = <<>>

\* dates = [r[0] for r in rows]
Dates(rows) == [i \in DOMAIN rows |-> rows[i][1]]

\* list.index: the first position holding x
IndexOf(seq, x) == CHOOSE i \in DOMAIN seq : seq[i] = x /\ \A j \in 1..(i - 1) : seq[j] # x

InSeq(seq, x) == \E i \in DOMAIN seq : seq[i] = x

\* lines 152-156
UpsertedAppend(rows, row) == Append(rows, row)

UpsertedMoved(rows, row) ==
    Append(SelectSeq(rows, LAMBDA r : r[1] # row[1]), row)

Upserted(rows, row) ==
    IF InSeq(Dates(rows), row[1])
    THEN [rows EXCEPT ![IndexOf(Dates(rows), row[1])] = row]
    ELSE Append(rows, row)

(***************************************************************************)
(* The page and the extractor (extract_eur_rate, lines 100-135).           *)
(* A page is what BeautifulSoup finds in it: whether there is a <table>,   *)
(* whether the table has a <thead> or a <tr>, the texts of the header      *)
(* row's <th> cells, and for every <tr> the texts of its <td> cells.  A    *)
(* cell text is a sequence of characters.                                  *)
(***************************************************************************)
Chars(str) ==
    CASE str = "EUR" -> <<"E", "U", "R">>
      [] str = "eur" -> <<"e", "u", "r">>
      [] str = "USD" -> <<"U", "S", "D">>
      [] str = "1.234,56" -> <<"1", ".", "2", "3", "4", ",", "5", "6">>
      [] str = "1.240,00" -> <<"1", ".", "2", "4", "0", ",", "0", "0">>
      [] str = "1234.56" -> <<"1", "2", "3", "4", ".", "5", "6">>
      [] str = "1240.00" -> <<"1", "2", "4", "0", ".", "0", "0">>
      [] str = "1,10" -> <<"1", ",", "1", "0">>
      [] str = "1,12" -> <<"1", ",", "1", "2">>
      [] str = "." -> <<".">>
      [] str = "n/a" -> <<"n", "/", "a">>

RECURSIVE Str(_)
\* the string a sequence of characters spells
Str(cs) == IF cs = <<>> THEN "" ELSE Head(cs) \o Str(Tail(cs))

Digits == {"0", "1", "2", "3", "4", "5", "6", "7", "8", "9"}

\* str.upper(), on the letters the model's cells use
UpperChar(c) ==
    CASE c = "e" -> "E"
      [] c = "u" -> "U"
      [] c = "r" -> "R"
      [] c = "n" -> "N"
      [] c = "a" -> "A"
      [] OTHER -> c

Upper(cs) == [i \in DOMAIN cs |-> UpperChar(cs[i])]

\* str.replace(a, b) for one-character a and b
Replace(cs, a, b) == [i \in DOMAIN cs |-> IF cs[i] = a THEN b ELSE cs[i]]

Count(cs, c) == Cardinality({i \in DOMAIN cs : cs[i] = c})

\* float(text) does not raise ValueError.  The model's cells hold digits,
\* ".", ",", a sign and letters that spell no float (no exponent, no
\* underscore, no inf or nan): an optional sign, then digits around at most
\* one point, with at least one digit.
IsFloat(cs) ==
    LET unsigned == IF cs # <<>> /\ Head(cs) \in {"+", "-"} THEN Tail(cs) ELSE cs
    IN  /\ \A i \in DOMAIN unsigned : unsigned[i] \in Digits \cup {"."}
        /\ Count(unsigned, ".") <= 1
        /\ \E i \in DOMAIN unsigned : unsigned[i] \in Digits

\* lines 125-129: float(raw.replace(",", ".")) does not raise
Numeric(raw) == IsFloat(Replace(raw, ",", "."))

\* lines 130-131: raw.replace(".", ",")
Display(raw) == Str(Replace(raw, ".", ","))

\* an exception of kind `err`; `label` and `headers` are what the message of
\* line 115 names and lists
NoRate(err) ==
    [ok |-> FALSE, err |-> err, mid |-> "", sal |-> "", label |-> "",
     headers |-> <<>>]

\* lines 123-133, for the row whose currency cell matched
RowRate(cols, idxMid, idxSal) ==
    IF Len(cols) < idxMid \/ Len(cols) < idxSal
    THEN NoRate("IndexError")
    ELSE IF ~(Numeric(cols[idxMid]) /\ Numeric(cols[idxSal]))
    THEN NoRate("not numeric")
    ELSE [ok |-> TRUE, err |-> "", mid |-> Display(cols[idxMid]),
          sal |-> Display(cols[idxSal]), label |-> "", headers |-> <<>>]

RECURSIVE ScanRows(_, _, _, _, _)
\* lines 118-135: the loop over the table's rows
ScanRows(rows, currency, idxCur, idxMid, idxSal) ==
    IF rows = <<>> THEN NoRate("currency not found")
    ELSE LET cols == Head(rows)
         IN  IF cols = <<>>
             THEN ScanRows(Tail(rows), currency, idxCur, idxMid, idxSal)
             ELSE IF Len(cols) < idxCur THEN NoRate("IndexError")
             ELSE IF Upper(cols[idxCur]) = Upper(currency)
             THEN RowRate(cols, idxMid, idxSal)
             ELSE ScanRows(Tail(rows), currency, idxCur, idxMid, idxSal)

\* lines 110-113: headers.index(label), 1-based here
ColumnByPosition(headers, label) ==
    CASE label = "Currency" -> 1
      [] label = "Middle" -> 2
      [] label = "Sales" -> 3

Column(headers, label) == IndexOf(headers, label)

\* lines 110-114: the first headers.index call that raises ValueError, whose
\* message names the label it looked for
LastMissing(headers) ==
    IF ~InSeq(headers, "Sales") THEN "Sales"
    ELSE IF ~InSeq(headers, "Middle") THEN "Middle"
    ELSE "Currency"

FirstMissing(headers) ==
    IF ~InSeq(headers, "Currency") THEN "Currency"
    ELSE IF ~InSeq(headers, "Middle") THEN "Middle"
    ELSE "Sales"

\* line 115: the RuntimeError built from the ValueError and the header list
HeaderError(headers) ==
    [NoRate("headers missing") EXCEPT !.label = FirstMissing(headers),
                                      !.headers = headers]

\* lines 103-135
Extract(page, currency) ==
    IF ~page.table THEN NoRate("table not found")
    ELSE IF ~page.hrow THEN NoRate("AttributeError")
    ELSE IF \E l \in {"Currency", "Middle", "Sales"} : ~InSeq(page.headers, l)
    THEN HeaderError(page.headers)
    ELSE ScanRows(page.rows, currency,
                  Column(page.headers, "Currency"),
                  Column(page.headers, "Middle"),
                  Column(page.headers, "Sales"))

(***************************************************************************)
(* The inputs: pages, responses, ledger files, configurations.             *)
(***************************************************************************)
MaxTableRows == 2

SeqsUpTo(S, n) == UNION {[1..k -> S] : k \in 0..n}

HeaderOrders ==
    { <<"Currency", "Middle", "Sales">>, <<"Currency", "Sales", "Middle">>,
      <<"Middle", "Currency", "Sales">>, <<"Middle", "Sales", "Currency">>,
      <<"Sales", "Currency", "Middle">>, <<"Sales", "Middle", "Currency">>,
      <<"Unit", "Currency", "Middle", "Sales">>,
      <<"Currency", "Middle">>,
      <<"currency", "Middle", "Sales">>,
      <<"Sales">> }

CurCells == {Chars("EUR"), Chars("eur"), Chars("USD")}

NumPairs ==
    { <<Chars("1.234,56"), Chars("1.240,00")>>,
      <<Chars("1234.56"), Chars("1240.00")>>,
      <<Chars("1,10"), Chars("1,12")>>,
      <<Chars("."), Chars("n/a")>> }

\* a <tr> whose <td> cells stand under the header labels
Layout(headers, c, m, s) ==
    [i \in DOMAIN headers |->
        CASE headers[i] = "Currency" -> c
          [] headers[i] = "Middle" -> m
          [] headers[i] = "Sales" -> s
          [] OTHER -> Chars("n/a")]

RowsFor(headers) ==
    {Layout(headers, c, p[1], p[2]) : c \in CurCells, p \in NumPairs}
        \cup {<<>>, <<Chars("EUR")>>}

NoTablePage == [table |-> FALSE, hrow |-> FALSE, headers |-> <<>>, rows |-> <<>>]

NoHeaderRowPage == [table |-> TRUE, hrow |-> FALSE, headers |-> <<>>, rows |-> <<>>]

TablePage(headers, rows) ==
    [table |-> TRUE, hrow |-> TRUE, headers |-> headers, rows |-> rows]

ExtractPages ==
    {NoTablePage, NoHeaderRowPage} \cup
    UNION { {TablePage(h, r) : r \in SeqsUpTo(RowsFor(h), MaxTableRows)} : h \in HeaderOrders }

\* the pages the remote server serves in a run
RunPages ==
    { TablePage(<<"Currency", "Middle", "Sales">>,
                << <<>>, <<Chars("EUR"), Chars("1,10"), Chars("1,12")>> >>),
      TablePage(<<"Currency", "Sales", "Middle">>,
                << <<Chars("USD"), Chars("1,10"), Chars("1,12")>>,
                   <<Chars("eur"), Chars("1240.00"), Chars("1234.56")>> >>),
      NoTablePage }

NoResponse == [kind |-> "none", status |-> 0, ra |-> FALSE]

\* the processes of concurrent runs, and one that has not called save_csv:
\* its position, its local `existing`, the rows it has written through its
\* descriptor, and the path the file it opened is now linked at
Procs == {1, 2}

NoProc == [pc |-> "idle", existing |-> <<>>, off |-> 0, fd |-> "none"]

NoProcs == [p \in Procs |-> NoProc]

\* no exception left extract_eur_rate
NoExc == [err |-> "", label |-> "", headers |-> <<>>]

\* what one GET attempt meets: a response with its status, whether it has a
\* Retry-After header and its body, or a transport failure
Responses ==
    {[kind |-> "http", status |-> 200, ra |-> FALSE, body |-> b] : b \in RunPages}
        \cup {[kind |-> "http", status |-> s, ra |-> FALSE, body |-> NoTablePage] :
                s \in {404, 429, 501, 503}}
        \cup {[kind |-> "http", status |-> 429, ra |-> TRUE, body |-> NoTablePage]}
        \cup {[kind |-> "error", status |-> 0, ra |-> FALSE, body |-> NoTablePage]}

OldRate == <<"1,05", "1,07">>

LedgerRows ==
    {Header, <<>>, <<"Data", "Middle">>}
        \cup {<<d>> \o OldRate : d \in LedgerDates}

InitialLedgers ==
    {Absent} \cup
    {[exists |-> TRUE, crlf |-> c, rows |-> r] :
        c \in BOOLEAN, r \in SeqsUpTo(LedgerRows, MaxRows)}

\* what earlier runs left in the log
PriorLogs == {<<"start", "error">>}

\* the rates a caller hands to save_csv
Rates == {<<"1,10", "1,12">>, <<"1234,56", "1240,00">>}

Configs ==
    [weekdays : {{0, 1, 2, 3, 4}},
     start : {0}, end : {1},
     skip : BOOLEAN,
     currency : {Chars("EUR")}]

(***************************************************************************)
(* The gate, the skip check and the retry policy.                          *)
(***************************************************************************)
\* check_weekday does not raise
CheckWeekdayIso(valid, day) == (Weekday(day) + 1) \in valid

CheckWeekday(valid, day) == Weekday(day) \in valid

\* check_time_window does not raise
CheckTimeWindowOpenEnd(start, end, tod) == start <= tod /\ tod < end

CheckTimeWindow(start, end, tod) == start <= tod /\ tod <= end

\* lines 178-181: the list comprehension raises IndexError on a blank line
SkipRaises(skip, file) ==
    skip /\ file.exists /\ Len(ReadRows(file)) > 1 /\ HasBlank(Tail(ReadRows(file)))

\* lines 178-182: `today in dates`
SkipsToday(skip, file, date) ==
    /\ skip
    /\ file.exists
    /\ Len(ReadRows(file)) > 1
    /\ InSeq(Dates(Tail(ReadRows(file))), date)

\* create_session's default `retries`
Retries == 3

StatusForcelist == {500, 502, 503, 504}

\* urllib3's Retry.RETRY_AFTER_STATUS_CODES; respect_retry_after_header is
\* left at its default, True
RetryAfterStatusCodes == {413, 429, 503}

\* urllib3's Retry.is_retry for a GET, as create_session configures it
IsRetry(code, hasRetryAfter, left) ==
    \/ code \in StatusForcelist
    \/ left # 0 /\ hasRetryAfter /\ code \in RetryAfterStatusCodes

\* resp.raise_for_status() raises
RaisesForStatus(code) == 400 <= code /\ code < 600

(***************************************************************************)
(* The state machine.                                                      *)
(***************************************************************************)
\* the positions of the rows keyed by date
RowsOn(rows, date) == {i \in DOMAIN rows : rows[i] # <<>> /\ rows[i][1] = date}

OneRowPerDate(rows) ==
    \A d \in AllDates \cup LedgerDates : Cardinality(RowsOn(rows, d)) <= 1

Locals0 ==
    /\ today = ""
    /\ total = Retries
    /\ attempts = 0
    /\ body = NoTablePage
    /\ mid = ""
    /\ sal = ""
    /\ upToday = ""
    /\ existing = <<>>
    /\ status = "none"
    /\ failed = "none"
    /\ trace = <<>>

Init ==
    /\ cfg \in Configs
    /\ now = [day |-> 0, tod |-> 0]
    /\ csv \in InitialLedgers
    /\ tmp = Absent
    /\ log \in PriorLogs
    /\ pc = "start"
    /\ Locals0
    /\ csv0 = csv
    /\ log0 = Len(log)
    /\ calls = 0
    /\ clean = OneRowPerDate(csv.rows)
    /\ lastKey = <<>>
    /\ replaced = FALSE
    /\ lastResp = NoResponse
    /\ exc = NoExc
    /\ procs = NoProcs

history == <<csv0, log0, calls, clean, lastResp, exc>>

\* an exception leaves `stage` and propagates to the handler of line 195
RaiseRefetch(stage) == pc' = "fetching" /\ failed' = stage

Raise(stage) == pc' = "raised" /\ failed' = stage

\* lines 170-172
StartUngated ==
    /\ pc = "start"
    /\ trace' = Append(trace, "weekday")
    /\ log' = Append(log, "start")
    /\ pc' = "timeChecked"
    /\ UNCHANGED <<cfg, procs, now, csv, tmp, today, total, attempts, body, mid, sal,
                   upToday, existing, status, failed, history, lastKey, replaced>>

Start ==
    /\ pc = "start"
    /\ trace' = Append(trace, "weekday")
    /\ IF CheckWeekday(cfg.weekdays, now.day)
       THEN /\ log' = log \o <<"start", "dayOk">>
            /\ pc' = "dayChecked"
            /\ failed' = failed
       ELSE /\ log' = Append(log, "start")
            /\ Raise("weekday")
    /\ UNCHANGED <<cfg, procs, now, csv, tmp, today, total, attempts, body, mid, sal,
                   upToday, existing, status, history, lastKey, replaced>>

\* lines 173-174
CheckTime ==
    /\ pc = "dayChecked"
    /\ trace' = Append(trace, "time")
    /\ IF CheckTimeWindow(cfg.start, cfg.end, now.tod)
       THEN /\ log' = Append(log, "timeOk")
            /\ pc' = "timeChecked"
            /\ failed' = failed
       ELSE /\ log' = log
            /\ Raise("time")
    /\ UNCHANGED <<cfg, procs, now, csv, tmp, today, total, attempts, body, mid, sal,
                   upToday, existing, status, history, lastKey, replaced>>

\* lines 176-186 and 96
SkipCheck ==
    /\ pc = "timeChecked"
    /\ trace' = Append(trace, "skip")
    /\ today' = DateStr(now.day)
    /\ IF SkipRaises(cfg.skip, csv)
       THEN /\ Raise("skip")
            /\ UNCHANGED <<log, total>>
       ELSE IF SkipsToday(cfg.skip, csv, today')
       THEN /\ log' = Append(log, "skip")
            /\ pc' = "returned"
            /\ UNCHANGED <<failed, total>>
       ELSE /\ log' = Append(log, "get")
            /\ pc' = "fetching"
            /\ total' = Retries
            /\ failed' = failed
    /\ UNCHANGED <<cfg, procs, now, csv, tmp, attempts, body, mid, sal,
                   upToday, existing, status, history, lastKey, replaced>>

\* lines 97-98: one GET of session.get, under the adapter's Retry.  `total`
\* is the remaining total of the Retry object of the request in flight; the
\* adapter's own Retry object keeps Retries.
FetchAttempt(r) ==
    /\ pc = "fetching"
    /\ attempts' = attempts + 1
    /\ trace' = IF attempts = 0 THEN Append(trace, "fetch") ELSE trace
    /\ lastResp' = [kind |-> r.kind, status |-> r.status, ra |-> r.ra]
    /\ IF r.kind = "error" \/ IsRetry(r.status, r.ra, total)
       THEN /\ body' = body
            /\ IF total - 1 < 0
               THEN Raise("fetch") /\ total' = Retries
               ELSE pc' = pc /\ failed' = failed /\ total' = total - 1
       ELSE /\ total' = Retries
            /\ IF RaisesForStatus(r.status)
               THEN Raise("fetch") /\ body' = body
               ELSE pc' = "fetched" /\ failed' = failed /\ body' = r.body
    /\ UNCHANGED <<cfg, procs, now, csv, tmp, log, today, mid, sal, upToday, existing,
                   status, csv0, log0, calls, clean, lastKey, replaced, exc>>

\* lines 100-135
Parse ==
    /\ pc = "fetched"
    /\ trace' = Append(trace, "extract")
    /\ LET r == Extract(body, cfg.currency)
       IN  IF r.ok
           THEN /\ mid' = r.mid
                /\ sal' = r.sal
                /\ log' = Append(log, "extracted")
                /\ pc' = "extracted"
                /\ failed' = failed
                /\ exc' = exc
           ELSE /\ Raise("extract")
                /\ exc' = [err |-> r.err, label |-> r.label, headers |-> r.headers]
                /\ UNCHANGED <<mid, sal, log>>
    /\ UNCHANGED <<cfg, procs, now, csv, tmp, today, total, attempts, body,
                   upToday, existing, status, csv0, log0, calls, clean,
                   lastResp, lastKey, replaced>>

\* lines 139-156
SaveBegin ==
    /\ pc = "extracted"
    /\ trace' = Append(trace, "upsert")
    /\ upToday' = DateStr(now.day)
    /\ LET rows == WithHeader(IF csv.exists THEN ReadRows(csv) ELSE <<>>)
       IN  IF HasBlank(rows)
           THEN /\ Raise("upsert")
                /\ UNCHANGED <<existing, replaced>>
           ELSE /\ existing' = Upserted(rows, <<upToday', mid, sal>>)
                /\ replaced' = InSeq(Dates(rows), upToday')
                /\ pc' = "opening"
                /\ failed' = failed
    /\ calls' = calls + 1
    /\ UNCHANGED <<cfg, procs, now, csv, tmp, log, today, total, attempts, body, mid,
                   sal, status, csv0, log0, clean, lastKey, lastResp, exc>>

\* line 158: open(temp, "w") creates or truncates the temporary file
OpenTarget ==
    /\ pc = "opening"
    /\ csv' = Written(<<>>)
    /\ pc' = "writing"
    /\ UNCHANGED <<cfg, procs, now, tmp, log, today, total, attempts, body, mid, sal,
                   upToday, existing, status, failed, trace, history, lastKey,
                   replaced>>

OpenTmp ==
    /\ pc = "opening"
    /\ tmp' = Written(<<>>)
    /\ pc' = "writing"
    /\ UNCHANGED <<cfg, procs, now, csv, log, today, total, attempts, body, mid, sal,
                   upToday, existing, status, failed, trace, history, lastKey,
                   replaced>>

\* line 159: the next row reaches the temporary file
WriteRow ==
    /\ pc = "writing"
    /\ Len(tmp.rows) < Len(existing)
    /\ tmp' = Written(Append(tmp.rows, existing[Len(tmp.rows) + 1]))
    /\ UNCHANGED <<cfg, procs, now, csv, log, pc, today, total, attempts, body, mid,
                   sal, upToday, existing, status, failed, trace, history,
                   lastKey, replaced>>

\* line 160: temp.replace(path)
Rename ==
    /\ pc = "writing"
    /\ Len(tmp.rows) = Len(existing)
    /\ csv' = tmp
    /\ tmp' = Absent
    /\ pc' = "renamed"
    /\ lastKey' = <<upToday, mid, sal>>
    /\ UNCHANGED <<cfg, procs, now, log, today, total, attempts, body, mid, sal,
                   upToday, existing, status, failed, trace, history, replaced>>

\* lines 162-166
PostCheck ==
    /\ pc = "renamed"
    /\ IF csv.exists
       THEN /\ log' = Append(log, "csvOk")
            /\ pc' = "persisted"
            /\ failed' = failed
       ELSE /\ log' = Append(log, "csvMissing")
            /\ Raise("upsert")
    /\ UNCHANGED <<cfg, procs, now, csv, tmp, today, total, attempts, body, mid, sal,
                   upToday, existing, status, trace, history, lastKey, replaced>>

\* line 190
Finish ==
    /\ pc = "persisted"
    /\ log' = Append(log, "end")
    /\ pc' = "returned"
    /\ UNCHANGED <<cfg, procs, now, csv, tmp, today, total, attempts, body, mid, sal,
                   upToday, existing, status, failed, trace, history, lastKey,
                   replaced>>

\* main returned: the interpreter exits with status 0
ExitOkHang == pc = "returned" /\ UNCHANGED vars

ExitOk ==
    /\ pc = "returned"
    /\ status' = "0"
    /\ pc' = "exited"
    /\ UNCHANGED <<cfg, procs, now, csv, tmp, log, today, total, attempts, body, mid,
                   sal, upToday, existing, failed, trace, history, lastKey,
                   replaced>>

\* lines 195-196
HandleErrorSilent ==
    /\ pc = "raised"
    /\ pc' = "logged"
    /\ UNCHANGED <<cfg, procs, now, csv, tmp, log, today, total, attempts, body, mid,
                   sal, upToday, existing, status, failed, trace, history,
                   lastKey, replaced>>

HandleError ==
    /\ pc = "raised"
    /\ log' = Append(log, "error")
    /\ pc' = "logged"
    /\ UNCHANGED <<cfg, procs, now, csv, tmp, today, total, attempts, body, mid, sal,
                   upToday, existing, status, failed, trace, history, lastKey,
                   replaced>>

\* line 197
ExitFail ==
    /\ pc = "logged"
    /\ status' = "1"
    /\ pc' = "exited"
    /\ UNCHANGED <<cfg, procs, now, csv, tmp, log, today, total, attempts, body, mid,
                   sal, upToday, existing, failed, trace, history, lastKey,
                   replaced>>

\* the process is killed, at any step: its memory is gone, the files stay
Kill ==
    /\ pc \notin {"exited", "killed"}
    /\ pc' = "killed"
    /\ status' = "killed"
    /\ today' = ""
    /\ total' = Retries
    /\ body' = NoTablePage
    /\ mid' = ""
    /\ sal' = ""
    /\ upToday' = ""
    /\ existing' = <<>>
    /\ UNCHANGED <<cfg, procs, now, csv, tmp, log, attempts, failed, trace, history,
                   lastKey, replaced>>

\* the positions whose next step reads the wall clock (lines 81, 76, 176, 140)
ClockReadAhead == pc \in {"start", "dayChecked", "timeChecked", "extracted"}

\* time passes, past midnight too.  Only the clock a read sees matters, so
\* time is let pass before each read and nowhere else.
Tick ==
    /\ ClockReadAhead
    /\ now.tod < MaxTod \/ now.day < MaxDay
    /\ now' = IF now.tod < MaxTod
              THEN [now EXCEPT !.tod = @ + 1]
              ELSE [day |-> now.day + 1, tod |-> 0]
    /\ UNCHANGED <<cfg, procs, csv, tmp, log, pc, today, total, attempts, body, mid,
                   sal, upToday, existing, status, failed, trace, history,
                   lastKey, replaced>>

Next ==
    \/ Start
    \/ CheckTime
    \/ SkipCheck
    \/ \E r \in Responses : FetchAttempt(r)
    \/ Parse
    \/ SaveBegin
    \/ OpenTmp
    \/ WriteRow
    \/ Rename
    \/ PostCheck
    \/ Finish
    \/ ExitOk
    \/ HandleError
    \/ ExitFail
    \/ Kill
    \/ Tick

Spec == Init /\ [][Next]_vars

(***************************************************************************)
(* A caller that calls save_csv again and again, with any rates, while     *)
(* time passes: the ledger under sequences of upserts.                     *)
(***************************************************************************)
InitUpserts ==
    /\ cfg \in {c \in Configs : c.skip}
    /\ now = [day |-> 0, tod |-> 0]
    /\ csv \in InitialLedgers
    /\ tmp = Absent
    /\ log = <<>>
    /\ pc = "extracted"
    /\ today = ""
    /\ total = Retries
    /\ attempts = 0
    /\ body = NoTablePage
    /\ \E rate \in Rates : mid = rate[1] /\ sal = rate[2]
    /\ upToday = ""
    /\ existing = <<>>
    /\ status = "none"
    /\ failed = "none"
    /\ trace = <<>>
    /\ csv0 = csv
    /\ log0 = 0
    /\ calls = 0
    /\ clean = OneRowPerDate(csv.rows)
    /\ lastKey = <<>>
    /\ replaced = FALSE
    /\ lastResp = NoResponse
    /\ exc = NoExc
    /\ procs = NoProcs

\* save_csv returned or raised: the next call
Call ==
    /\ pc \in {"persisted", "raised"}
    /\ calls < MaxCalls
    /\ \E rate \in Rates : mid' = rate[1] /\ sal' = rate[2]
    /\ pc' = "extracted"
    /\ failed' = "none"
    /\ csv0' = csv
    /\ UNCHANGED <<cfg, procs, now, csv, tmp, log, today, total, attempts, body,
                   upToday, existing, status, trace, log0, calls, clean,
                   lastKey, replaced, lastResp, exc>>

NextUpserts ==
    \/ Call
    \/ SaveBegin
    \/ OpenTmp
    \/ WriteRow
    \/ Rename
    \/ PostCheck
    \/ Tick

SpecUpserts == InitUpserts /\ [][NextUpserts]_vars

(***************************************************************************)
(* The extractor alone, on every page of ExtractPages.                     *)
(***************************************************************************)
ExtractConfigs ==
    [weekdays : {{0, 1, 2, 3, 4}}, start : {0}, end : {1}, skip : {TRUE},
     currency : {Chars("EUR"), Chars("USD")}]

InitExtract ==
    /\ cfg \in ExtractConfigs
    /\ now = [day |-> 0, tod |-> 0]
    /\ csv = Absent
    /\ tmp = Absent
    /\ log = <<>>
    /\ pc = "fetched"
    /\ today = DateStr(0)
    /\ total = Retries
    /\ attempts = 1
    /\ body \in ExtractPages
    /\ mid = ""
    /\ sal = ""
    /\ upToday = ""
    /\ existing = <<>>
    /\ status = "none"
    /\ failed = "none"
    /\ trace = <<"weekday", "time", "skip", "fetch">>
    /\ csv0 = csv
    /\ log0 = 0
    /\ calls = 0
    /\ clean = TRUE
    /\ lastKey = <<>>
    /\ replaced = FALSE
    /\ lastResp = NoResponse
    /\ exc = NoExc
    /\ procs = NoProcs

NextExtract == Parse

SpecExtract == InitExtract /\ [][NextExtract]_vars

(***************************************************************************)
(* C6.  Extractor value normalization.                                     *)
(***************************************************************************)
\* the page has the three labels, once each, and every <tr> with cells has
\* one cell under each label
Tabular(page) ==
    /\ page.table /\ page.hrow
    /\ \A l \in {"Currency", "Middle", "Sales"} :
          Cardinality({i \in DOMAIN page.headers : page.headers[i] = l}) = 1
    /\ \A i \in DOMAIN page.rows :
          page.rows[i] = <<>> \/ Len(page.rows[i]) = Len(page.headers)

Under(page, i, label) ==
    page.rows[i][CHOOSE k \in DOMAIN page.headers : page.headers[k] = label]

IsEurRow(page, i) ==
    page.rows[i] # <<>> /\ Under(page, i, "Currency") = Chars("EUR")

\* the first row for EUR holds m under Middle and s under Sales
FirstEurRowHolds(page, m, s) ==
    /\ Tabular(page)
    /\ \E i \in DOMAIN page.rows :
          /\ IsEurRow(page, i)
          /\ \A j \in 1..(i - 1) :
                page.rows[j] = <<>> \/ Under(page, j, "Currency") = Chars("USD")
          /\ Under(page, i, "Middle") = Chars(m)
          /\ Under(page, i, "Sales") = Chars(s)

Parsed == pc \in {"extracted", "raised"}

\* C6 as amended: with the three headers in any column order and extracting
\* EUR, a first EUR row with the dot-decimal cells 1234.56 and 1240.00 gives
\* middle 1234,56 and sales 1240,00, taken from the columns the header names
\* resolve to; a first EUR row with the cells 1.234,56 and 1.240,00 fails the
\* numeric validation and no rate is returned.
C6_ExtractNormalizes ==
    (Parsed /\ cfg.currency = Chars("EUR")) =>
        /\ FirstEurRowHolds(body, "1234.56", "1240.00") =>
              pc = "extracted" /\ mid = "1234,56" /\ sal = "1240,00"
        /\ FirstEurRowHolds(body, "1,10", "1,12") =>
              pc = "extracted" /\ mid = "1,10" /\ sal = "1,12"
        /\ FirstEurRowHolds(body, "1.234,56", "1.240,00") =>
              pc = "raised" /\ failed = "extract" /\ mid = "" /\ sal = ""

\* a permuted table whose EUR row was extracted and normalized
C6_Witness ==
    /\ pc = "extracted"
    /\ cfg.currency = Chars("EUR")
    /\ body.headers = <<"Sales", "Middle", "Currency">>
    /\ FirstEurRowHolds(body, "1234.56", "1240.00")
    /\ mid = "1234,56"

\* C6 as claimed: the cells 1.234,56 and 1.240,00 are extracted as 1234,56
\* and 1240,00
C6_Original ==
    (Parsed /\ cfg.currency = Chars("EUR")
        /\ FirstEurRowHolds(body, "1.234,56", "1.240,00")) =>
        pc = "extracted" /\ mid = "1234,56" /\ sal = "1240,00"

(***************************************************************************)
(* The ledger under upserts: C1, C2, C7.                                   *)
(***************************************************************************)
\* the rows of a file, none when it is absent
RowsOf(file) == IF file.exists THEN file.rows ELSE <<>>

\* C1: when the first call starts from an absent ledger or from one with at
\* most one row per date, the ledger holds at most one row per date after
\* every sequence of save_csv calls.
C1_OneRowPerDate == clean => OneRowPerDate(RowsOf(csv))

\* the second call found its date in the ledger the first call wrote, and
\* its rename left one row for that date
C1_Witness ==
    /\ clean
    /\ calls = 2
    /\ pc = "renamed"
    /\ replaced
    /\ Cardinality(RowsOn(csv.rows, upToday)) = 1

\* the rename that ends a save_csv call
Renames == pc = "writing" /\ pc' = "renamed"

\* C2: a save_csv call with the date and the rate of the call before it
\* leaves the ledger file as that call left it.
C2_Idempotent ==
    [][(Renames /\ calls >= 2 /\ lastKey = <<upToday, mid, sal>>) => csv' = csv]_vars

\* the second of two identical calls is about to rename
C2_Witness ==
    /\ pc = "writing"
    /\ Len(tmp.rows) = Len(existing)
    /\ calls = 2
    /\ lastKey = <<upToday, mid, sal>>

\* the position the canonical header pushes the old rows to
Shift(old) == IF old # <<>> /\ old[1] = Header THEN 0 ELSE 1

\* the new rows are the old rows, `off` places further, but for row i0
SameBut(old, new, off, i0) ==
    \A i \in DOMAIN old : i # i0 => new[i + off] = old[i]

\* what a rename does to the rows, with the header counted as `off` new rows
UpsertFrame(old, new, row, off) ==
    IF RowsOn(old, row[1]) # {}
    THEN LET i0 == CHOOSE i \in RowsOn(old, row[1]) :
                       \A j \in RowsOn(old, row[1]) : i <= j
         IN  /\ Len(new) = Len(old) + off
             /\ new[i0 + off] = row
             /\ SameBut(old, new, off, i0)
    ELSE /\ Len(new) = Len(old) + off + 1
         /\ new[Len(new)] = row
         /\ SameBut(old, new, off, 0)

\* C7 as amended: on a ledger whose first row is the canonical header, an
\* upsert of a date that has a row changes only the first row of that date
\* and keeps the number and the order of the rows, and an upsert of a date
\* with no row appends one row at the end and changes no row; on any other
\* ledger the canonical header is inserted as row 0 as well, and the same
\* holds of the old rows, each one place further.
C7_UpsertFrame ==
    [][Renames =>
        /\ csv'.rows[1] = Header
        /\ UpsertFrame(RowsOf(csv), csv'.rows, <<upToday, mid, sal>>, Shift(RowsOf(csv)))]_vars

\* a row was replaced between the header and a row that stayed
C7_Witness ==
    /\ pc = "renamed"
    /\ replaced
    /\ Len(csv0.rows) = 3 /\ Len(csv.rows) = 3
    /\ csv0.rows[1] = Header
    /\ csv.rows[2] = <<upToday, mid, sal>>
    /\ csv0.rows[2] # csv.rows[2]
    /\ csv.rows[3] = csv0.rows[3]

\* C7 as claimed, for a date that has a row: the upsert changes only that row
\* and the number of rows is unchanged, whatever the first row of the ledger
C7_Original ==
    [][(Renames /\ RowsOn(RowsOf(csv), upToday) # {}) =>
        UpsertFrame(RowsOf(csv), csv'.rows, <<upToday, mid, sal>>, 0)]_vars

(***************************************************************************)
(* One run: C3, C4, C5, C8, C9, C10.                                       *)
(***************************************************************************)
\* the ledger this run's upsert writes: the prior rows, the canonical header
\* put first when it is not, the row of lastKey replaced or appended
Updated == Written(Upserted(WithHeader(RowsOf(csv0)), lastKey))

\* C3: at every step of a run, a killed run's last step included, the file
\* at the ledger path is the prior file (or absent, as before) or the whole
\* updated file.
C3_AtomicWrite == csv = csv0 \/ (lastKey # <<>> /\ csv = Updated)

\* killed after rows reached the temporary file and before the rename: the
\* ledger is still the prior file
C3_Witness ==
    /\ pc = "killed"
    /\ tmp.exists /\ Len(tmp.rows) >= 2
    /\ csv.exists /\ csv = csv0
    /\ tmp.rows # csv.rows

\* the records this run appended to the log
Mine == SubSeq(log, log0 + 1, Len(log))

\* the run took the SkippedToday transition
Skipped == Mine # <<>> /\ Mine[Len(Mine)] = "skip"

\* the skip check has run, and the run is alive
SkipChecked == InSeq(trace, "skip") /\ today # ""

\* C4 as claimed: with skip_if_exists enabled and a row for today's date in
\* the ledger, a run past both gates sends no GET and leaves the ledger as
\* it was.
C4_SkipNoEffect ==
    (SkipChecked /\ cfg.skip /\ RowsOn(RowsOf(csv0), today) # {}) =>
        attempts = 0 /\ calls = 0 /\ csv = csv0

\* C5 as claimed, on ledgers without blank lines: past both gates the run
\* skips if and only if skip_if_exists is enabled and today's date has a row
\* in the ledger, whatever the first row.
C5_SkipIff ==
    (SkipChecked /\ ~HasBlank(RowsOf(csv0))) =>
        (Skipped <=> (cfg.skip /\ RowsOn(RowsOf(csv0), today) # {}))

NoRepeats(seq) == \A i, j \in DOMAIN seq : i # j => seq[i] # seq[j]

\* C8: a failed stage is the last stage the run entered and the run is on
\* its way out; no stage is entered twice; a gate failure means no GET was
\* sent; a failure before the upsert means save_csv was not called and the
\* ledger and the temporary file are untouched; a failure before the rename
\* leaves the ledger as it was.
C8_FailFast ==
    /\ NoRepeats(trace)
    /\ failed # "none" =>
          /\ pc \in {"raised", "logged", "exited", "killed"}
          /\ trace # <<>> /\ trace[Len(trace)] = failed
    /\ failed \in {"weekday", "time"} => attempts = 0
    /\ failed \in {"weekday", "time", "skip", "fetch", "extract"} =>
          calls = 0 /\ csv = csv0 /\ tmp = Absent
    /\ (failed # "none" /\ lastKey = <<>>) => csv = csv0

\* the extraction failed after a retried GET and the run exited
C8_Witness ==
    /\ pc = "exited"
    /\ failed = "extract"
    /\ attempts >= 2
    /\ csv.exists /\ csv = csv0

ErrorRecords == {"error", "csvMissing"}

\* C9: a run exits with status 1 only after a stage failed and the error
\* record is the last record it appended; a run exits with status 0 only
\* after skipping or finishing, with no error record appended; a run that
\* exits after a failure exits with status 1.
C9_ExitStatus ==
    /\ status = "1" =>
          failed # "none" /\ Mine # <<>> /\ Mine[Len(Mine)] = "error"
    /\ status = "0" =>
          /\ failed = "none"
          /\ Mine # <<>> /\ Mine[Len(Mine)] \in {"skip", "end"}
          /\ \A i \in DOMAIN Mine : Mine[i] \notin ErrorRecords
    /\ pc = "exited" => (status = "1" <=> failed # "none")
    /\ pc = "exited" => status \in {"0", "1"}

\* the fetch failed and the run exited with status 1
C9_Witness ==
    /\ pc = "exited"
    /\ status = "1"
    /\ failed = "fetch"
    /\ Len(Mine) >= 4

ClientError(resp) == resp.kind = "http" /\ resp.status \in 400..499

\* C10 as claimed: at most Retries + 1 GETs; a GET is re-attempted only
\* after 500, 502, 503, 504 or a transport failure; a 4xx response is never
\* retried; a 2xx response ends the fetch with its body.
C10_RetryPolicy ==
    /\ attempts <= Retries + 1
    /\ (pc = "fetching" /\ attempts >= 1) =>
          lastResp.kind = "error" \/ lastResp.status \in StatusForcelist
    /\ ClientError(lastResp) => pc # "fetching"
    /\ (lastResp.kind = "http" /\ lastResp.status \in 200..299 /\ pc = "fetched") =>
          failed = "none"

(***************************************************************************)
(* The two gate checks alone, for every weekday set, every window and      *)
(* every clock reading.                                                    *)
(***************************************************************************)
\* the days of one week, Friday 31/05/2024 to Thursday 06/06/2024
GateDays == 0..6

GateConfigs ==
    [weekdays : SUBSET (0..6),
     start : 0..MaxTod, end : 0..MaxTod,
     skip : {TRUE},
     currency : {Chars("EUR")}]

InitGates ==
    /\ cfg \in GateConfigs
    /\ now \in [day : GateDays, tod : 0..MaxTod]
    /\ csv = Written(<<Header, <<DateStr(0)>> \o OldRate>>)
    /\ tmp = Absent
    /\ log \in PriorLogs
    /\ pc \in {"start", "dayChecked"}
    /\ Locals0
    /\ csv0 = csv
    /\ log0 = Len(log)
    /\ calls = 0
    /\ clean = TRUE
    /\ lastKey = <<>>
    /\ replaced = FALSE
    /\ lastResp = NoResponse
    /\ exc = NoExc
    /\ procs = NoProcs

NextGates ==
    \/ Start
    \/ CheckTime

SpecGates == InitGates /\ [][NextGates]_vars

\* what a gate check may not touch: the configuration, the clock, the files
\* and every other local of the run
gateFrame == <<cfg, procs, now, csv, tmp, today, total, attempts, body, mid, sal,
               upToday, existing, status, history, lastKey, replaced>>

\* the step in which check_time_window runs
TimeCheckStep == pc = "dayChecked" /\ pc' # pc

\* C11: check_time_window returns if and only if start <= t <= end, both
\* ends included, so it raises for every t when start > end; it changes
\* nothing, and the only record that follows it is main's.
C11_TimeWindow ==
    [][TimeCheckStep =>
        /\ (pc' = "timeChecked") <=> (cfg.start <= now.tod /\ now.tod <= cfg.end)
        /\ (pc' = "raised" /\ failed' = "time") <=>
              (now.tod < cfg.start \/ cfg.end < now.tod)
        /\ cfg.start > cfg.end => pc' = "raised"
        /\ UNCHANGED gateFrame
        /\ log' = IF pc' = "timeChecked" THEN Append(log, "timeOk") ELSE log]_vars

\* the check passed at the very end of a window that is not a single instant
C11_Witness ==
    /\ pc = "timeChecked"
    /\ cfg.start < cfg.end
    /\ now.tod = cfg.end

\* the step in which check_weekday runs
WeekdayCheckStep == pc = "start" /\ pc' # pc

\* C12: check_weekday returns if and only if the weekday of the clock's date
\* is in the set; it changes nothing, and the records around it are main's.
C12_Weekday ==
    [][WeekdayCheckStep =>
        /\ (pc' = "dayChecked") <=> (Weekday(now.day) \in cfg.weekdays)
        /\ (pc' = "raised" /\ failed' = "weekday") <=>
              (Weekday(now.day) \notin cfg.weekdays)
        /\ UNCHANGED gateFrame
        /\ log' = log \o (IF pc' = "dayChecked" THEN <<"start", "dayOk">>
                                                ELSE <<"start">>)]_vars

\* Sunday 02/06/2024 passed a set that holds Sunday and not Monday
C12_Witness ==
    /\ pc = "dayChecked"
    /\ trace = <<"weekday">>
    /\ now.day = 2
    /\ 6 \in cfg.weekdays
    /\ 0 \notin cfg.weekdays

(***************************************************************************)
(* C13.  Header self-healing.                                              *)
(***************************************************************************)
\* the ledger lacks its header: no rows, or a first row that is not Header
NeedsHeader(rows) == rows = <<>> \/ rows[1] # Header

\* how many rows equal the canonical header
HeaderRows(rows) == Cardinality({i \in DOMAIN rows : rows[i] = Header})

\* the first row of `date`, the one the date scan replaces; 0 when none
FirstOn(rows, date) ==
    IF RowsOn(rows, date) = {} THEN 0
    ELSE CHOOSE i \in RowsOn(rows, date) : \A j \in RowsOn(rows, date) : i <= j

\* C13: an upsert leaves the canonical header as row 0 of the ledger.  On an
\* absent or empty ledger, or one whose first row is not the canonical
\* header, the header is inserted at position 0 and every old row follows it
\* in order, the first row included (it is scanned as a data row: when it is
\* today's row it is the one replaced); on a ledger whose first row is the
\* canonical header no header row is added.
C13_HeaderHealed ==
    [][Renames =>
        LET old == RowsOf(csv)
            new == csv'.rows
            key == <<upToday, mid, sal>>
        IN  /\ new[1] = Header
            /\ NeedsHeader(old) =>
                  /\ HeaderRows(new) = HeaderRows(old) + 1
                  /\ Len(new) >= Len(old) + 1
                  /\ \A i \in DOMAIN old :
                        IF i = FirstOn(old, upToday)
                        THEN new[i + 1] = key
                        ELSE new[i + 1] = old[i]
            /\ ~NeedsHeader(old) =>
                  /\ HeaderRows(new) = HeaderRows(old)
                  /\ Len(new) <= Len(old) + 1]_vars

\* a ledger of two data rows, the first of them today's, got its header: the
\* first row was replaced in its place and the second kept
C13_Witness ==
    /\ pc = "renamed"
    /\ calls = 1
    /\ Len(csv0.rows) = 2
    /\ csv0.rows[1] = <<upToday>> \o OldRate
    /\ csv.rows = <<Header, <<upToday, mid, sal>>, csv0.rows[2]>>

(***************************************************************************)
(* The extractor's header resolution and row scan: C14, C15.               *)
(***************************************************************************)
Labels == {"Currency", "Middle", "Sales"}

\* the labels the observed header row lacks
AbsentLabels(page) == {l \in Labels : ~InSeq(page.headers, l)}

\* the page has a table with a header row that holds the three labels
Resolved(page) == page.table /\ page.hrow /\ AbsentLabels(page) = {}

\* the row has cells and its cell in the currency column is the target
\* currency, ignoring case; a row too short to have that cell has no value
\* there
MatchesTarget(page, i, currency) ==
    LET cols == page.rows[i]
        idxCur == IndexOf(page.headers, "Currency")
    IN  /\ cols # <<>>
        /\ Len(cols) >= idxCur
        /\ Upper(cols[idxCur]) = Upper(currency)

\* the first row that matches, in document order; 0 when none does
FirstMatch(page, currency) ==
    IF \A i \in DOMAIN page.rows : ~MatchesTarget(page, i, currency) THEN 0
    ELSE CHOOSE i \in DOMAIN page.rows :
            /\ MatchesTarget(page, i, currency)
            /\ \A j \in 1..(i - 1) : ~MatchesTarget(page, j, currency)

\* the extraction ended as reading the rate from row i alone would
TakenFrom(page, i) ==
    LET r == RowRate(page.rows[i], IndexOf(page.headers, "Middle"),
                     IndexOf(page.headers, "Sales"))
    IN  IF r.ok
        THEN pc = "extracted" /\ mid = r.mid /\ sal = r.sal
        ELSE pc = "raised" /\ exc.err = r.err

\* C14 as claimed: the result is taken from the first row whose cell in the
\* currency column equals the target currency ignoring case, whatever rows
\* stand before and after it, and with no such row the extraction fails
\* with the currency-not-found error.
C14_RowSelection ==
    (Parsed /\ Resolved(body)) =>
        IF FirstMatch(body, cfg.currency) = 0
        THEN pc = "raised" /\ failed = "extract" /\ exc.err = "currency not found"
        ELSE TakenFrom(body, FirstMatch(body, cfg.currency))

\* the header row was observed and lacks a label
LabelAbsent(page) == page.table /\ page.hrow /\ AbsentLabels(page) # {}

\* C15 as amended: when the observed header row lacks any of Currency,
\* Middle, Sales (matched exactly, so `currency` is not Currency), the
\* extraction fails with the headers-missing error whatever the rows are;
\* the error names one label, the first absent one in the order Currency,
\* Middle, Sales, and carries the observed header list; no rate is returned.
C15_HeadersMissing ==
    (Parsed /\ LabelAbsent(body)) =>
        /\ pc = "raised" /\ failed = "extract"
        /\ exc.err = "headers missing"
        /\ exc.label \in AbsentLabels(body)
        /\ exc.label = "Middle" => "Currency" \notin AbsentLabels(body)
        /\ exc.label = "Sales" => AbsentLabels(body) = {"Sales"}
        /\ exc.headers = body.headers
        /\ mid = "" /\ sal = ""

\* Sales is absent and a row for the target currency is in the table: the
\* error names Sales and lists the two headers observed
C15_Witness ==
    /\ pc = "raised"
    /\ body.headers = <<"Currency", "Middle">>
    /\ \E i \in DOMAIN body.rows :
          body.rows[i] # <<>> /\ body.rows[i][1] = cfg.currency
    /\ exc = [err |-> "headers missing", label |-> "Sales",
              headers |-> <<"Currency", "Middle">>]

\* C15 as claimed: the error names every absent label
C15_Original ==
    (Parsed /\ LabelAbsent(body)) =>
        /\ pc = "raised" /\ exc.err = "headers missing"
        /\ {exc.label} = AbsentLabels(body)
        /\ exc.headers = body.headers

(***************************************************************************)
(* C16.  The order of the stages of a run.                                 *)
(***************************************************************************)
Stages == <<"weekday", "time", "skip", "fetch", "extract", "upsert">>

IsPrefix(s, t) == Len(s) <= Len(t) /\ SubSeq(t, 1, Len(s)) = s

\* both gate checks returned: main logged lines 172 and 174
GatesPassed == Len(Mine) >= 3 /\ SubSeq(Mine, 1, 3) = <<"start", "dayOk", "timeOk">>

\* the last GET attempt met a 2xx response
FetchedOk == lastResp.kind = "http" /\ lastResp.status \in 200..299

\* C16: the stages a run has entered are a prefix of weekday, time, skip,
\* fetch, extract, upsert; the skip check (the first read of the ledger) and
\* every GET come after both gate checks returned; until then the ledger
\* and the temporary file are untouched; the extractor runs only on a 2xx
\* response; save_csv is called, and the ledger or the temporary file
\* written, only after the fetch and the extraction of this run succeeded.
C16_RunOrder ==
    /\ IsPrefix(trace, Stages)
    /\ (InSeq(trace, "skip") \/ attempts > 0 \/ calls > 0) => GatesPassed
    /\ attempts > 0 <=> InSeq(trace, "fetch")
    /\ calls > 0 <=> InSeq(trace, "upsert")
    /\ ~InSeq(trace, "skip") => attempts = 0 /\ calls = 0
    /\ InSeq(trace, "extract") => FetchedOk
    /\ InSeq(trace, "upsert") => FetchedOk /\ InSeq(Mine, "extracted")
    /\ (csv # csv0 \/ tmp # Absent) => InSeq(trace, "upsert")

\* a run went through every stage, the fetch with a retry, and wrote the
\* ledger
C16_Witness ==
    /\ pc = "persisted"
    /\ trace = Stages
    /\ attempts >= 2
    /\ csv # csv0

(***************************************************************************)
(* C17.  A run that is not killed, scheduled fairly: the interpreter takes *)
(* its next step, and every GET attempt ends, with a response or with a    *)
(* transport failure (the timeout of line 97 ends a silent one).           *)
(***************************************************************************)
Run ==
    \/ Start
    \/ CheckTime
    \/ SkipCheck
    \/ \E r \in Responses : FetchAttempt(r)
    \/ Parse
    \/ SaveBegin
    \/ OpenTmp
    \/ WriteRow
    \/ Rename
    \/ PostCheck
    \/ Finish
    \/ ExitOk
    \/ HandleError
    \/ ExitFail

NextLive ==
    \/ Run
    \/ Tick

\* the ledgers a fair run starts from: none, a well-formed one with today's
\* row, a headerless one, one with a blank line
LiveLedgers ==
    { Absent,
      Written(<<Header, <<DateStr(0)>> \o OldRate>>),
      Written(<< <<DateStr(0)>> \o OldRate >>),
      Written(<<Header, <<>> >>) }

InitLive == Init /\ csv \in LiveLedgers

SpecLive == InitLive /\ [][NextLive]_vars /\ WF_vars(Run)

\* the terminal outcomes of the run
OutcomeSkipped == status = "0" /\ Mine # <<>> /\ Mine[Len(Mine)] = "skip"

OutcomeDone == status = "0" /\ Mine # <<>> /\ Mine[Len(Mine)] = "end"

OutcomeFailed == status = "1" /\ failed # "none"

OneOutcome ==
    /\ OutcomeSkipped \/ OutcomeDone \/ OutcomeFailed
    /\ ~(OutcomeSkipped /\ OutcomeDone)
    /\ ~(OutcomeSkipped /\ OutcomeFailed)
    /\ ~(OutcomeDone /\ OutcomeFailed)

\* C17: whatever the server answers to each GET, the run ends: it reaches
\* the exit with exactly one of the outcomes SkippedToday, Done, Failed and
\* stays there.
C17_Terminates == <>[](pc = "exited" /\ OneOutcome)

\* the run failed after the last of Retries + 1 attempts met a transport
\* failure
C17_Witness ==
    /\ pc = "exited"
    /\ OutcomeFailed
    /\ failed = "fetch"
    /\ attempts = Retries + 1
    /\ lastResp.kind = "error"

(***************************************************************************)
(* C18.  The clock reads of one run (lines 81, 76, 176, 140).              *)
(***************************************************************************)
\* the date is a day whose weekday is in the configured set
OnValidWeekday(date) ==
    \E d \in 0..MaxDay : DateStr(d) = date /\ Weekday(d) \in cfg.weekdays

\* C18 as claimed: the date save_csv keys its row by is the date the skip
\* check tested, and its weekday is in the configured set, however much
\* time passes between the clock reads of the run.
C18_ClockConsistent ==
    upToday # "" => upToday = today /\ OnValidWeekday(upToday)

(***************************************************************************)
(* C19.  Two processes in save_csv at the same time, on the same ledger    *)
(* path and so on the same temporary path.  open(temp, "w") truncates the  *)
(* file the other process may be writing; a descriptor writes at its own   *)
(* offset into the file it opened, wherever that file is linked now;       *)
(* temp.replace(path) links whatever file is at the temporary path to the  *)
(* ledger path.                                                            *)
(***************************************************************************)
\* the zero bytes of the gap a write past the end of a truncated file leaves
Hole == <<"NUL">>

\* a write of `row` through a descriptor that has written `off` rows
Overlay(file, off, row) ==
    LET gap == [i \in 1..(off - Len(file.rows)) |-> Hole]
        rows == IF Len(file.rows) >= off THEN file.rows ELSE file.rows \o gap
    IN  Written(IF Len(rows) > off THEN [rows EXCEPT ![off + 1] = row]
                                   ELSE Append(rows, row))

RaceLedgers ==
    { Absent,
      Written(<<Header, <<DateStr(0)>> \o OldRate>>),
      Written(<<Header, <<DateStr(1)>> \o OldRate>>) }

InitRace ==
    /\ cfg \in {c \in Configs : c.skip}
    /\ now = [day |-> 0, tod |-> 0]
    /\ csv \in RaceLedgers
    /\ tmp = Absent
    /\ log \in PriorLogs
    /\ pc = "extracted"
    /\ Locals0
    /\ csv0 = csv
    /\ log0 = Len(log)
    /\ calls = 0
    /\ clean = TRUE
    /\ lastKey = <<>>
    /\ replaced = FALSE
    /\ lastResp = NoResponse
    /\ exc = NoExc
    /\ procs = [p \in Procs |-> [NoProc EXCEPT !.pc = "called"]]

raceFrame == <<cfg, now, log, pc, today, total, attempts, body, mid, sal,
               upToday, existing, status, failed, trace, history, lastKey,
               replaced>>

\* lines 139-156, with the rate the process extracted
RaceRead(p) ==
    /\ procs[p].pc = "called"
    /\ \E rate \in Rates :
          LET rows == WithHeader(IF csv.exists THEN ReadRows(csv) ELSE <<>>)
          IN  procs' = [procs EXCEPT ![p] =
                  IF HasBlank(rows)
                  THEN [@ EXCEPT !.pc = "raised"]
                  ELSE [@ EXCEPT !.pc = "opening",
                                 !.existing = Upserted(rows, <<DateStr(now.day)>> \o rate)]]
    /\ UNCHANGED <<csv, tmp, raceFrame>>

\* line 158: open(temp, "w") creates the file or truncates the one there
RaceOpen(p) ==
    /\ procs[p].pc = "opening"
    /\ tmp' = Written(<<>>)
    /\ procs' = [procs EXCEPT ![p] = [@ EXCEPT !.pc = "writing", !.off = 0,
                                               !.fd = "tmp"]]
    /\ UNCHANGED <<csv, raceFrame>>

\* line 159: the next row goes to the file the descriptor is open on
RaceWrite(p) ==
    /\ procs[p].pc = "writing"
    /\ procs[p].off < Len(procs[p].existing)
    /\ LET row == procs[p].existing[procs[p].off + 1]
       IN  /\ tmp' = IF procs[p].fd = "tmp" THEN Overlay(tmp, procs[p].off, row)
                     ELSE tmp
           /\ csv' = IF procs[p].fd = "csv" THEN Overlay(csv, procs[p].off, row)
                     ELSE csv
    /\ procs' = [procs EXCEPT ![p] = [@ EXCEPT !.off = @ + 1]]
    /\ UNCHANGED raceFrame

\* line 160: temp.replace(path); FileNotFoundError when the other process
\* has renamed the temporary file away
RaceRename(p) ==
    /\ procs[p].pc = "writing"
    /\ procs[p].off = Len(procs[p].existing)
    /\ IF tmp.exists
       THEN /\ csv' = tmp
            /\ tmp' = Absent
            /\ procs' = [q \in Procs |->
                  [procs[q] EXCEPT
                      !.pc = IF q = p THEN "renamed" ELSE @,
                      !.fd = CASE @ = "tmp" -> "csv"
                               [] @ = "csv" -> "unlinked"
                               [] OTHER -> @]]
       ELSE /\ procs' = [procs EXCEPT ![p] = [@ EXCEPT !.pc = "raised"]]
            /\ UNCHANGED <<csv, tmp>>
    /\ UNCHANGED raceFrame

NextRace ==
    \E p \in Procs :
        \/ RaceRead(p)
        \/ RaceOpen(p)
        \/ RaceWrite(p)
        \/ RaceRename(p)

SpecRace == InitRace /\ [][NextRace]_vars

\* the ledgers a reader may see under the claim: the one before the runs, or
\* the whole list of rows one of the processes set out to write
WholeLedgers ==
    {csv0} \cup {Written(procs[p].existing) : p \in {q \in Procs : procs[q].existing # <<>>}}

\* C19 as claimed: while two processes upsert at the same time, the file at
\* the ledger path is always a fully old or a fully new ledger.
C19_ReaderSeesWhole == csv \in WholeLedgers

====
